---- MODULE Spec2Model ----
(***************************************************************************)
(* Model of the two maintenance scripts of nerulibrary:                    *)
(*   fix_analysis.py          - five textual rules over every lib/*.dart   *)
(*   fix_super_parameters.py  - three regex rules over a target list plus  *)
(*                              the failure/exception files found in lib/  *)
(* Text is a sequence of one-character strings, so str.replace and re.sub  *)
(* are computed character by character.                                    *)
(***************************************************************************)
EXTENDS Integers, Sequences, FiniteSets, TLC

VARIABLES
    \* ---- rule engine of fix_file, one rule per step --------------------
    input,              \* text of the file before the first run
    original_content,   \* fix_file: original_content of the current run
    content,            \* fix_file: content, rewritten rule after rule
    rule,               \* number of rules of fix_file applied in this run
    run,                \* 0 = idle, 1 = first run of the script, 2 = re-run
    \* ---- a run of main() over a file tree -------------------------------
    script,             \* "analysis" | "super" | "none"
    projExists,         \* the directory of os.chdir exists
    libExists,          \* the directory lib exists
    listing,            \* order in which the file system lists the files of lib
    disk0,              \* the files when the run started
    fs,                 \* the files now: path -> [exists, data]
    pc,                 \* position of main()
    todo,               \* os.walk: files still to be yielded (fix_analysis)
    target_files,       \* main: target_files (fix_super_parameters)
    idx,                \* main: position of the for loop in target_files
    fixed_count,        \* main: fixed_count
    calls,              \* path -> number of calls of the per-file fixer
    opened_r,           \* paths opened for reading
    opened_w,           \* paths opened for writing
    fixedLog,           \* paths of the "Fixed" lines printed
    notFound,           \* paths of the "File not found" lines printed
    unchangedLog,       \* paths of the "No changes needed" lines printed
    failed,             \* path whose open() raised, NoPath if none
    summary             \* count printed by the final summary line, -1 if none

rvars == <<input, original_content, content, rule, run>>
fvars == <<script, projExists, libExists, listing, disk0, fs, pc, todo, target_files,
           idx, fixed_count, calls, opened_r, opened_w, fixedLog, notFound,
           unchangedLog, failed, summary>>
vars == <<input, original_content, content, rule, run,
          script, projExists, libExists, listing, disk0, fs, pc, todo, target_files,
          idx, fixed_count, calls, opened_r, opened_w, fixedLog, notFound,
          unchangedLog, failed, summary>>

(***************************************************************************)
(* Bounds                                                                  *)
(***************************************************************************)
\* an input text of the rule engine is a concatenation of at most MaxPieces pieces
MaxPieces == 3
\* at most MaxVaried files of the tree are missing or hold text a rule matches
MaxVaried == 2

(***************************************************************************)
(* Characters and strings                                                  *)
(***************************************************************************)
Lower == {"a","b","c","d","e","f","g","h","i","j","k","l","m",
          "n","o","p","q","r","s","t","u","v","w","x","y","z"}
Upper == {"A","B","C","D","E","F","G","H","I","J","K","L","M",
          "N","O","P","Q","R","S","T","U","V","W","X","Y","Z"}
Digit == {"0","1","2","3","4","5","6","7","8","9"}
\* [a-zA-Z_]
IdentStart == Lower \cup Upper \cup {"_"}
\* [a-zA-Z0-9_], also \w on the characters used here
IdentChar == IdentStart \cup Digit
\* \s
Space == {" ", "\t", "\n", "\r"}

Min(S) == CHOOSE x \in S : \A y \in S : x <= y

\* s[from..] as a sequence
Drop(s, n) == SubSeq(s, n + 1, Len(s))

\* s.startswith(p)
StartsWith(s, p) == Len(s) >= Len(p) /\ SubSeq(s, 1, Len(p)) = p

\* s.endswith(p)
EndsWith(s, p) == Len(s) >= Len(p) /\ SubSeq(s, Len(s) - Len(p) + 1, Len(s)) = p

\* p in s
Contains(s, p) == \E i \in 1..(Len(s) - Len(p) + 1) : SubSeq(s, i, i + Len(p) - 1) = p

\* first index j >= i whose character is not in class C, Len(s)+1 if none:
\* the end of a greedy C* that starts at i
SpanEnd(s, i, C) == Min({j \in i..(Len(s) + 1) : j = Len(s) + 1 \/ s[j] \notin C})

\* first index j >= i with s[j] = c, 0 if none
IndexOf(s, c, i) ==
    LET S == {j \in i..Len(s) : s[j] = c}
    IN  IF S = {} THEN 0 ELSE Min(S)

\* s.find(p) + 1: index of the first occurrence of p in s, 0 if none
Find(s, p) ==
    LET S == {i \in 1..(Len(s) - Len(p) + 1) : SubSeq(s, i, i + Len(p) - 1) = p}
    IN  IF S = {} THEN 0 ELSE Min(S)

\* s.count(p): non-overlapping occurrences, scanning from the left
RECURSIVE Count(_, _)
Count(s, p) ==
    LET i == Find(s, p)
    IN  IF i = 0 THEN 0 ELSE 1 + Count(Drop(s, i + Len(p) - 1), p)

(***************************************************************************)
(* The literals of fix_analysis.py                                         *)
(***************************************************************************)
surfaceVariant == <<"s","u","r","f","a","c","e","V","a","r","i","a","n","t">>
surfaceContainerHighest == <<"s","u","r","f","a","c","e","C","o","n","t","a","i","n","e","r","H","i","g","h","e","s","t">>
dot_withOpacity == <<".","w","i","t","h","O","p","a","c","i","t","y","(">>
dot_withValues == <<".","w","i","t","h","V","a","l","u","e","s","(","a","l","p","h","a",":"," ">>
dot_background == <<".","b","a","c","k","g","r","o","u","n","d">>
dot_surface == <<".","s","u","r","f","a","c","e">>
dot_onBackground == <<".","o","n","B","a","c","k","g","r","o","u","n","d">>
dot_onSurface == <<".","o","n","S","u","r","f","a","c","e">>

(***************************************************************************)
(* str.replace(old, new): every non-overlapping occurrence, left to right; *)
(* re.sub likewise takes the leftmost match, then goes on after its end     *)
(***************************************************************************)
\* str.replace(old, new, 1): the first occurrence only
str_replace_first(s, old, new) ==
    LET i == Find(s, old)
    IN  IF i = 0 THEN s
        ELSE SubSeq(s, 1, i - 1) \o new \o Drop(s, i + Len(old) - 1)

RECURSIVE str_replace(_, _, _)
str_replace(s, old, new) ==
    LET i == Find(s, old)
    IN  IF i = 0 THEN s
        ELSE SubSeq(s, 1, i - 1) \o new \o str_replace(Drop(s, i + Len(old) - 1), old, new)

(***************************************************************************)
(* re.sub(r'\.withOpacity\(([^)]+)\)', r'.withValues(alpha: \1)', s)       *)
(***************************************************************************)
\* the same match with [^)]* in place of [^)]+ : an empty argument matches
withOpacity_match_star(s) ==
    IF StartsWith(s, dot_withOpacity)
    THEN IndexOf(s, ")", Len(dot_withOpacity) + 1)
    ELSE 0

\* index of the closing ')' of a match that starts at s[1], 0 if no match:
\* [^)]+ runs to the first ')' and must not be empty
withOpacity_match(s) ==
    IF StartsWith(s, dot_withOpacity)
    THEN LET j == IndexOf(s, ")", Len(dot_withOpacity) + 1)
         IN  IF j > Len(dot_withOpacity) + 1 THEN j ELSE 0
    ELSE 0

RECURSIVE sub_withOpacity(_)
sub_withOpacity(s) ==
    LET starts == {i \in 1..Len(s) : withOpacity_match(Drop(s, i - 1)) > 0}
    IN  IF starts = {} THEN s
        ELSE LET i == Min(starts)
                 m == Drop(s, i - 1)
                 e == withOpacity_match(m)
             IN  SubSeq(s, 1, i - 1)
                     \o dot_withValues \o SubSeq(m, Len(dot_withOpacity) + 1, e - 1) \o <<")">>
                     \o sub_withOpacity(Drop(m, e))

(***************************************************************************)
(* re.sub of the string-interpolation rule: '${' identifier '}' -> '$'     *)
(* identifier, the identifier being [a-zA-Z_] then [a-zA-Z0-9_] repeated   *)
(***************************************************************************)
\* index of the closing '}' of a match that starts at s[1], 0 if no match
interpolation_match(s) ==
    IF Len(s) >= 4 /\ s[1] = "$" /\ s[2] = "{" /\ s[3] \in IdentStart
    THEN LET k == SpanEnd(s, 4, IdentChar)
         IN  IF k <= Len(s) /\ s[k] = "}" THEN k ELSE 0
    ELSE 0

RECURSIVE sub_interpolation(_)
sub_interpolation(s) ==
    LET starts == {i \in 1..Len(s) : interpolation_match(Drop(s, i - 1)) > 0}
    IN  IF starts = {} THEN s
        ELSE LET i == Min(starts)
                 m == Drop(s, i - 1)
                 e == interpolation_match(m)
             IN  SubSeq(s, 1, i - 1)
                     \o <<"$">> \o SubSeq(m, 3, e - 1)
                     \o sub_interpolation(Drop(m, e))

(***************************************************************************)
(* The five rules of fix_file, in declaration order                        *)
(***************************************************************************)
NumRules == 5

\* the rules with .background declared before surfaceVariant
apply_rule_swapped(k, s) ==
    CASE k = 1 -> str_replace(s, dot_background, dot_surface)
      [] k = 2 -> sub_withOpacity(s)
      [] k = 3 -> str_replace(s, surfaceVariant, surfaceContainerHighest)
      [] k = 4 -> str_replace(s, dot_onBackground, dot_onSurface)
      [] k = 5 -> sub_interpolation(s)

\* rule k of fix_file applied to s
apply_rule(k, s) ==
    CASE k = 1 -> str_replace(s, surfaceVariant, surfaceContainerHighest)
      [] k = 2 -> sub_withOpacity(s)
      [] k = 3 -> str_replace(s, dot_background, dot_surface)
      [] k = 4 -> str_replace(s, dot_onBackground, dot_onSurface)
      [] k = 5 -> sub_interpolation(s)

\* content after lines 12-25 of fix_file
fix_file_rules(s) ==
    apply_rule(5, apply_rule(4, apply_rule(3, apply_rule(2, apply_rule(1, s)))))

(***************************************************************************)
(* The three patterns of fix_super_parameters_in_file                      *)
(***************************************************************************)
kw_const == <<"c","o","n","s","t">>
required_String_message == <<"r","e","q","u","i","r","e","d"," ","S","t","r","i","n","g"," ","m","e","s","s","a","g","e">>
required_super_message == <<"r","e","q","u","i","r","e","d"," ","s","u","p","e","r",".","m","e","s","s","a","g","e">>
super_message == <<"s","u","p","e","r","(","m","e","s","s","a","g","e",":">>
message_close == <<"m","e","s","s","a","g","e",")",";">>

\* p occurs in s at index i
At(s, i, p) == i + Len(p) - 1 <= Len(s) /\ SubSeq(s, i, i + Len(p) - 1) = p

\* const\s+\w+\s*\{ with 'const' at index i: index after '{', 0 if no match
const_head(s, i) ==
    IF ~At(s, i, kw_const) THEN 0
    ELSE LET a == SpanEnd(s, i + Len(kw_const), Space)
             b == SpanEnd(s, a, IdentChar)
             c == SpanEnd(s, b, Space)
         IN  IF a > i + Len(kw_const) /\ b > a /\ c <= Len(s) /\ s[c] = "{"
             THEN c + 1 ELSE 0

\* \s*:\s*super\(message:\s*message\); from index i: index of the final ';',
\* 0 if no match
super_tail(s, i) ==
    LET a == SpanEnd(s, i, Space)
    IN  IF ~(a <= Len(s) /\ s[a] = ":") THEN 0
        ELSE LET b == SpanEnd(s, a + 1, Space)
             IN  IF ~At(s, b, super_message) THEN 0
                 ELSE LET c == SpanEnd(s, b + Len(super_message), Space)
                      IN  IF At(s, c, message_close)
                          THEN c + Len(message_close) - 1 ELSE 0

NoMatch == [end |-> 0, g1 |-> <<>>, g2 |-> <<>>]

\* pattern1 and pattern3 (the same expression) matched at s[1]:
\* (const\s+\w+\s*\{\s*)required String message(\s*\})\s*:\s*super\(message:\s*message\);
pattern1_match(s) ==
    LET h == const_head(s, 1)
    IN  IF h = 0 THEN NoMatch
        ELSE LET a == SpanEnd(s, h, Space)
                 b == a + Len(required_String_message)
                 c == SpanEnd(s, b, Space)
             IN  IF ~(At(s, a, required_String_message) /\ c <= Len(s) /\ s[c] = "}")
                 THEN NoMatch
                 ELSE LET e == super_tail(s, c + 1)
                      IN  IF e = 0 THEN NoMatch
                          ELSE [end |-> e, g1 |-> SubSeq(s, 1, a - 1), g2 |-> SubSeq(s, b, c)]

\* pattern1.sub(r'\1required super.message\2;', s)
RECURSIVE pattern1_sub(_)
pattern1_sub(s) ==
    LET starts == {i \in 1..Len(s) : pattern1_match(Drop(s, i - 1)).end > 0}
    IN  IF starts = {} THEN s
        ELSE LET i == Min(starts)
                 m == pattern1_match(Drop(s, i - 1))
             IN  SubSeq(s, 1, i - 1)
                     \o m.g1 \o required_super_message \o m.g2 \o <<";">>
                     \o pattern1_sub(Drop(s, i - 1 + m.end))

\* pattern2 matched at s[1]:
\* (\s+const\s+\w+\s*\{\s*\n\s*)required String message,(\s*(?:[^}]+\n)*\s*\})
\*     \s*:\s*super\(message:\s*message\);
\* the white space after '{' must hold a newline; the text X up to the first
\* '}' matches \s*(?:[^}]+\n)*\s* iff it is blank or a newline follows its
\* last non-blank character
pattern2_match(s) ==
    LET p == SpanEnd(s, 1, Space)
        h == const_head(s, p)
    IN  IF p = 1 \/ h = 0 THEN NoMatch
        ELSE LET a == SpanEnd(s, h, Space)
                 b == a + Len(required_String_message) + 1
                 q == IndexOf(s, "}", b)
                 ink == {k \in b..(q - 1) : s[k] \notin Space}
             IN  IF ~(/\ \E j \in h..(a - 1) : s[j] = "\n"
                      /\ At(s, a, required_String_message \o <<",">>)
                      /\ q > 0
                      /\ \/ ink = {}
                         \/ \E j \in b..(q - 1) : s[j] = "\n" /\ \A k \in ink : k < j)
                 THEN NoMatch
                 ELSE LET e == super_tail(s, q + 1)
                      IN  IF e = 0 THEN NoMatch
                          ELSE [end |-> e, g1 |-> SubSeq(s, 1, a - 1), g2 |-> SubSeq(s, b, q)]

\* pattern2.sub(r'\1required super.message,\2;', s)
RECURSIVE pattern2_sub(_)
pattern2_sub(s) ==
    LET starts == {i \in 1..Len(s) : pattern2_match(Drop(s, i - 1)).end > 0}
    IN  IF starts = {} THEN s
        ELSE LET i == Min(starts)
                 m == pattern2_match(Drop(s, i - 1))
             IN  SubSeq(s, 1, i - 1)
                     \o m.g1 \o required_super_message \o <<",">> \o m.g2 \o <<";">>
                     \o pattern2_sub(Drop(s, i - 1 + m.end))

\* content after lines 22-45 of fix_super_parameters_in_file
fix_super_parameters_rules(s) == pattern1_sub(pattern2_sub(pattern1_sub(s)))

(***************************************************************************)
(* open(path, 'r').read(): universal newlines, '\r\n' and '\r' read as '\n' *)
(* (open(path, 'w').write() writes '\n' as it is on the POSIX host the     *)
(* scripts are written for)                                                *)
(***************************************************************************)
RECURSIVE read_text(_)
read_text(b) ==
    LET i == IndexOf(b, "\r", 1)
    IN  IF i = 0 THEN b
        ELSE SubSeq(b, 1, i - 1) \o <<"\n">>
                 \o read_text(Drop(b, IF i < Len(b) /\ b[i + 1] = "\n" THEN i + 1 ELSE i))

(***************************************************************************)
(* Rule engine, one rule per step: the texts fix_file can read             *)
(***************************************************************************)
Variant == <<"V","a","r","i","a","n","t">>
Colors_black == <<"C","o","l","o","r","s",".","b","l","a","c","k">>

Pieces == {
    surfaceVariant, Variant, dot_background, dot_onBackground,
    dot_withOpacity, <<"0",".","5",")">>, <<")">>,
    <<"$","{">>, <<"x","}">>, Colors_black }

RECURSIVE Texts(_)
Texts(n) ==
    IF n = 0 THEN {<<>>}
    ELSE LET shorter == Texts(n - 1)
         IN  shorter \cup {t \o p : t \in shorter, p \in Pieces}

NoPath == [dir |-> "", name |-> <<>>]

\* the file-tree variables while only the rule engine is exercised
FilesIdle ==
    /\ script = "none"
    /\ projExists = TRUE
    /\ libExists = TRUE
    /\ listing = <<>>
    /\ disk0 = <<>>
    /\ fs = <<>>
    /\ pc = "idle"
    /\ todo = <<>>
    /\ target_files = <<>>
    /\ idx = 0
    /\ fixed_count = 0
    /\ calls = <<>>
    /\ opened_r = {}
    /\ opened_w = {}
    /\ fixedLog = {}
    /\ notFound = {}
    /\ unchangedLog = {}
    /\ failed = NoPath
    /\ summary = -1

\* fix_file line 6-9: content read, original_content = content
InitRules ==
    /\ input \in Texts(MaxPieces)
    /\ original_content = input
    /\ content = input
    /\ rule = 0
    /\ run = 1
    /\ FilesIdle

\* fix_file lines 12-25: the next rule, applied once to the whole content
ApplyNextRule ==
    /\ run \in {1, 2}
    /\ rule < NumRules
    /\ content' = apply_rule(rule + 1, content)
    /\ rule' = rule + 1
    /\ UNCHANGED <<input, original_content, run>>
    /\ UNCHANGED fvars

\* the script is run again over the file the first run left behind:
\* lines 27-29 wrote content if it differed, lines 6-9 read it back
Rerun ==
    /\ run = 1
    /\ rule = NumRules
    /\ original_content' = content
    /\ rule' = 0
    /\ run' = 2
    /\ UNCHANGED <<input, content>>
    /\ UNCHANGED fvars

NextRules == ApplyNextRule \/ Rerun

SpecRules == InitRules /\ [][NextRules]_vars

(***************************************************************************)
(* The file tree                                                           *)
(***************************************************************************)
dot_dart == <<".","d","a","r","t">>
kw_failure == <<"f","a","i","l","u","r","e">>
kw_exception == <<"e","x","c","e","p","t","i","o","n">>

\* os.path.join(root, file)
join(root, file) == [dir |-> root, name |-> file]

\* main of fix_super_parameters.py, lines 76-83
TARGETS == <<
    join("lib/features/library/domain/failures", <<"s","e","a","r","c","h","_","f","a","i","l","u","r","e","s",".","d","a","r","t">>),
    join("lib/features/reader/domain/failures", <<"r","e","a","d","e","r","_","f","a","i","l","u","r","e","s",".","d","a","r","t">>),
    join("lib/features/authentication/domain/failures", <<"a","u","t","h","_","f","a","i","l","u","r","e","s",".","d","a","r","t">>),
    join("lib/features/discovery/domain/failures", <<"a","p","i","_","f","a","i","l","u","r","e","s",".","d","a","r","t">>),
    join("lib/core/errors", <<"e","x","c","e","p","t","i","o","n","s",".","d","a","r","t">>),
    join("lib/core/errors", <<"f","a","i","l","u","r","e","s",".","d","a","r","t">>) >>

\* other files of lib: a failure file outside the target list, a .dart file
\* without keyword in a directory named failures, a keyword file that does
\* not end in .dart
OTHERS == <<
    join("lib/core/cache", <<"c","a","c","h","e","_","f","a","i","l","u","r","e",".","d","a","r","t">>),
    join("lib/features/failures", <<"h","o","m","e","_","p","a","g","e",".","d","a","r","t">>),
    join("lib/core/errors", <<"e","x","c","e","p","t","i","o","n","_","n","o","t","e","s",".","d","a","r","t",".","b","a","k">>) >>

PathList == TARGETS \o OTHERS

Paths == {PathList[i] : i \in 1..Len(PathList)}

Reverse(q) == [i \in 1..Len(q) |-> q[Len(q) + 1 - i]]

\* f in q, for a list q
InList(f, q) == \E i \in 1..Len(q) : q[i] = f

\* texts no rule of either script matches
CleanTexts == <<
    <<"c","l","a","s","s"," ","A"," ","{","}","\n">>,
    <<"c","o","n","s","t"," ","F","o","o","(","{","r","e","q","u","i","r","e","d"," ","S","t","r","i","n","g"," ","m","e","s","s","a","g","e","}",")"," ",":"," ","s","u","p","e","r","(","m","e","s","s","a","g","e",":"," ","m","e","s","s","a","g","e",")",";","\n">>,
    <<"c","l","a","s","s"," ","A"," ","{","}","\r","\n">> >>

\* texts some rule matches: both scripts, fix_analysis only,
\* fix_super_parameters only (pattern2), both
DirtyTexts == <<
    <<"c","o","n","s","t"," ","F","o","o"," ","{","r","e","q","u","i","r","e","d"," ","S","t","r","i","n","g"," ","m","e","s","s","a","g","e","}"," ",":"," ","s","u","p","e","r","(","m","e","s","s","a","g","e",":"," ","m","e","s","s","a","g","e",")",";"," ","c",".","w","i","t","h","O","p","a","c","i","t","y","(","0",".","5",")">>,
    <<"t",".","b","a","c","k","g","r","o","u","n","d">>,
    <<"\n"," ","c","o","n","s","t"," ","F","o","o"," ","{","\r","\n"," ","r","e","q","u","i","r","e","d"," ","S","t","r","i","n","g"," ","m","e","s","s","a","g","e",",","\n"," ","i","n","t"," ","c",",","\n","}"," ",":"," ","s","u","p","e","r","(","m","e","s","s","a","g","e",":"," ","m","e","s","s","a","g","e",")",";">>,
    <<"$","{","s","u","r","f","a","c","e","V","a","r","i","a","n","t","}","\r","\n"," ","c","o","n","s","t"," ","F"," ","{","r","e","q","u","i","r","e","d"," ","S","t","r","i","n","g"," ","m","e","s","s","a","g","e","}",":"," ","s","u","p","e","r","(","m","e","s","s","a","g","e",":","m","e","s","s","a","g","e",")",";">> >>

IndexIn(q, f) == CHOOSE i \in 1..Len(q) : q[i] = f

Absent == [exists |-> FALSE, data |-> <<>>]

File(d) == [exists |-> TRUE, data |-> d]

\* the tree in which the files of missing do not exist and the files of dirty
\* hold a text some rule matches
Tree(missing, dirty) ==
    [p \in Paths |->
        IF p \in missing THEN Absent
        ELSE IF p \in dirty
             THEN File(DirtyTexts[(IndexIn(PathList, p) % Len(DirtyTexts)) + 1])
             ELSE File(CleanTexts[(IndexIn(PathList, p) % Len(CleanTexts)) + 1])]

Trees ==
    {Tree(m, v \ m) : <<v, m>> \in
        {vm \in (SUBSET Paths) \X (SUBSET Paths) :
            vm[2] \subseteq vm[1] /\ Cardinality(vm[1]) <= MaxVaried}}

\* the rule-engine variables while a run over the file tree is modelled
RulesIdle ==
    /\ input = <<>>
    /\ original_content = <<>>
    /\ content = <<>>
    /\ rule = 0
    /\ run = 0

\* the state in which a script is started
Init ==
    /\ script \in {"analysis", "super"}
    /\ projExists \in (IF script = "super" THEN BOOLEAN ELSE {TRUE})
    /\ libExists \in (IF projExists THEN BOOLEAN ELSE {FALSE})
    /\ fs \in (IF libExists THEN Trees ELSE {[p \in Paths |-> Absent]})
    /\ listing \in {PathList, Reverse(PathList)}
    /\ disk0 = fs
    /\ pc = "start"
    /\ todo = <<>>
    /\ target_files = <<>>
    /\ idx = 0
    /\ fixed_count = 0
    /\ calls = [p \in Paths |-> 0]
    /\ opened_r = {}
    /\ opened_w = {}
    /\ fixedLog = {}
    /\ notFound = {}
    /\ unchangedLog = {}
    /\ failed = NoPath
    /\ summary = -1
    /\ RulesIdle

\* the test of line 91 left out
exists_always(p) == TRUE

\* os.path.exists(path)
exists(p) == p \in Paths /\ fs[p].exists

\* the files os.walk('lib') yields, in listing order; a lib that does not
\* exist makes scandir fail, os.walk ignores the error (onerror=None) and
\* yields nothing
walk_lib == SelectSeq(listing, LAMBDA p : libExists /\ fs[p].exists)

\* the write-back made unconditional
content_changed_always(new, original) == TRUE

\* line 27 of fix_file, line 48 of fix_super_parameters_in_file
content_changed(new, original) == new # original

(***************************************************************************)
(* fix_analysis.py                                                         *)
(***************************************************************************)
\* fix_file(filepath): read, apply the rules, write back if changed.
\* open() can raise; nothing in the script catches it.
fix_file(p) ==
    \/ \* open(filepath, 'r') raises
       /\ failed' = p
       /\ pc' = "aborted"
       /\ UNCHANGED <<fs, opened_r, opened_w, fixedLog>>
    \/ LET original == read_text(fs[p].data)
           new == fix_file_rules(original)
       IN  /\ opened_r' = opened_r \cup {p}
           /\ IF content_changed(new, original)
              THEN \/ /\ fs' = [fs EXCEPT ![p] = File(new)]
                      /\ opened_w' = opened_w \cup {p}
                      /\ fixedLog' = fixedLog \cup {p}
                      /\ UNCHANGED <<failed, pc>>
                   \/ \* open(filepath, 'w') raises, the file is as it was
                      /\ failed' = p
                      /\ pc' = "aborted"
                      /\ UNCHANGED <<fs, opened_w, fixedLog>>
              ELSE UNCHANGED <<fs, opened_w, fixedLog, failed, pc>>

\* file.endswith('.dart') with the suffix test left out
is_dart_any(file) == TRUE

\* file.endswith('.dart')
is_dart(file) == EndsWith(file, dot_dart)

\* main line 33: os.walk('lib') starts
main_walk ==
    /\ script = "analysis"
    /\ pc = "start"
    /\ todo' = walk_lib
    /\ pc' = "walk"
    /\ UNCHANGED <<script, projExists, libExists, listing, disk0, fs, target_files,
                   idx, fixed_count, calls, opened_r, opened_w, fixedLog, notFound,
                   unchangedLog, failed, summary>>
    /\ UNCHANGED rvars

\* main lines 34-36: the next file of the walk
main_file ==
    /\ script = "analysis"
    /\ pc = "walk"
    /\ todo # <<>>
    /\ todo' = Tail(todo)
    /\ IF is_dart(Head(todo).name)
       THEN /\ calls' = [calls EXCEPT ![Head(todo)] = @ + 1]
            /\ fix_file(Head(todo))
       ELSE UNCHANGED <<calls, fs, opened_r, opened_w, fixedLog, failed, pc>>
    /\ UNCHANGED <<script, projExists, libExists, listing, disk0, target_files,
                   idx, fixed_count, notFound, unchangedLog, summary>>
    /\ UNCHANGED rvars

\* main returns when the walk is exhausted
main_end ==
    /\ script = "analysis"
    /\ pc = "walk"
    /\ todo = <<>>
    /\ pc' = "done"
    /\ UNCHANGED <<script, projExists, libExists, listing, disk0, fs, todo, target_files,
                   idx, fixed_count, calls, opened_r, opened_w, fixedLog, notFound,
                   unchangedLog, failed, summary>>
    /\ UNCHANGED rvars

(***************************************************************************)
(* fix_super_parameters.py                                                 *)
(***************************************************************************)
\* fix_super_parameters_in_file(file_path); the value returned is what is
\* added to fixed_count (line 92-93)
fix_super_parameters_in_file(p) ==
    \/ \* open(file_path, 'r') raises
       /\ failed' = p
       /\ pc' = "aborted"
       /\ UNCHANGED <<fs, opened_r, opened_w, fixedLog, unchangedLog, fixed_count>>
    \/ LET original == read_text(fs[p].data)
           new == fix_super_parameters_rules(original)
       IN  /\ opened_r' = opened_r \cup {p}
           /\ IF content_changed(new, original)
              THEN \/ /\ fs' = [fs EXCEPT ![p] = File(new)]
                      /\ opened_w' = opened_w \cup {p}
                      /\ fixedLog' = fixedLog \cup {p}
                      /\ fixed_count' = fixed_count + 1
                      /\ UNCHANGED <<unchangedLog, failed, pc>>
                   \/ \* open(file_path, 'w') raises, the file is as it was
                      /\ failed' = p
                      /\ pc' = "aborted"
                      /\ UNCHANGED <<fs, opened_w, fixedLog, unchangedLog, fixed_count>>
              ELSE /\ unchangedLog' = unchangedLog \cup {p}
                   /\ UNCHANGED <<fs, opened_w, fixedLog, fixed_count, failed, pc>>

\* find_dart_files_with_super_parameter_issues()
find_dart_files_with_super_parameter_issues ==
    SelectSeq(walk_lib,
              LAMBDA p : /\ is_dart(p.name)
                         /\ Contains(p.name, kw_failure) \/ Contains(p.name, kw_exception))

\* line 87 without the 'if f not in target_files'
extend_all(targets, other_files) == targets \o other_files

\* line 87: target_files.extend([f for f in other_files if f not in target_files])
extend_new(targets, other_files) ==
    targets \o SelectSeq(other_files, LAMBDA f : ~InList(f, targets))

\* main line 73: os.chdir raises when the project directory does not exist
main_chdir ==
    /\ script = "super"
    /\ pc = "start"
    /\ pc' = IF projExists THEN "find" ELSE "aborted"
    /\ UNCHANGED <<script, projExists, libExists, listing, disk0, fs, todo, target_files,
                   idx, fixed_count, calls, opened_r, opened_w, fixedLog, notFound,
                   unchangedLog, failed, summary>>
    /\ UNCHANGED rvars

\* main lines 76-89
main_targets ==
    /\ script = "super"
    /\ pc = "find"
    /\ target_files' = extend_new(TARGETS, find_dart_files_with_super_parameter_issues)
    /\ fixed_count' = 0
    /\ idx' = 1
    /\ pc' = "loop"
    /\ UNCHANGED <<script, projExists, libExists, listing, disk0, fs, todo,
                   calls, opened_r, opened_w, fixedLog, notFound,
                   unchangedLog, failed, summary>>
    /\ UNCHANGED rvars

\* main lines 90-95: one iteration of the for loop
main_iteration ==
    /\ script = "super"
    /\ pc = "loop"
    /\ idx <= Len(target_files)
    /\ idx' = idx + 1
    /\ IF exists(target_files[idx])
       THEN /\ calls' = [calls EXCEPT ![target_files[idx]] = @ + 1]
            /\ fix_super_parameters_in_file(target_files[idx])
            /\ UNCHANGED notFound
       ELSE /\ notFound' = notFound \cup {target_files[idx]}
            /\ UNCHANGED <<calls, fs, opened_r, opened_w, fixedLog, unchangedLog,
                           fixed_count, failed, pc>>
    /\ UNCHANGED <<script, projExists, libExists, listing, disk0, todo, target_files,
                   summary>>
    /\ UNCHANGED rvars

\* main line 97: the summary line
main_summary ==
    /\ script = "super"
    /\ pc = "loop"
    /\ idx > Len(target_files)
    /\ summary' = fixed_count
    /\ pc' = "done"
    /\ UNCHANGED <<script, projExists, libExists, listing, disk0, fs, todo, target_files,
                   idx, fixed_count, calls, opened_r, opened_w, fixedLog, notFound,
                   unchangedLog, failed>>
    /\ UNCHANGED rvars

Next ==
    \/ main_walk
    \/ main_file
    \/ main_end
    \/ main_chdir
    \/ main_targets
    \/ main_iteration
    \/ main_summary

Spec == Init /\ [][Next]_vars

(***************************************************************************)
(* Claims about the rule engine (checked under SpecRules)                  *)
(***************************************************************************)

\* C2: idempotence of the pipeline - the five rules applied to the result of
\* a first run give that result again, so a second run writes nothing.
C2_Idempotent ==
    (run = 2 /\ rule = NumRules) => content = original_content

\* C7: rule ordering - after k rules the content is the composition of the
\* first k rules in declaration order (surfaceVariant, .withOpacity,
\* .background, .onBackground, ${identifier}), each applied once to the
\* output of the previous one; text an earlier rule introduced is rewritten
\* by a later rule of the same run.
C7_After(k, s) ==
    LET r1 == str_replace(s, surfaceVariant, surfaceContainerHighest)
        r2 == sub_withOpacity(r1)
        r3 == str_replace(r2, dot_background, dot_surface)
        r4 == str_replace(r3, dot_onBackground, dot_onSurface)
        r5 == sub_interpolation(r4)
    IN  CASE k = 0 -> s [] k = 1 -> r1 [] k = 2 -> r2
          [] k = 3 -> r3 [] k = 4 -> r4 [] k = 5 -> r5

C7_DeclarationOrder ==
    /\ rule \in 0..NumRules
    /\ content = C7_After(rule, original_content)
    /\ (run = 1 /\ rule = NumRules) => content = fix_file_rules(input)
    /\ (run = 1 /\ rule = NumRules /\ input = dot_background \o Variant)
           => content = dot_surface \o Variant
    /\ (run = 1 /\ rule = NumRules /\ input = <<"$","{">> \o surfaceVariant \o <<"x","}">>)
           => content = <<"$">> \o surfaceContainerHighest \o <<"x">>

\* the same rules with .background applied before surfaceVariant
C7_Permuted(s) ==
    LET r3 == str_replace(s, dot_background, dot_surface)
        r1 == str_replace(r3, surfaceVariant, surfaceContainerHighest)
        r2 == sub_withOpacity(r1)
        r4 == str_replace(r2, dot_onBackground, dot_onSurface)
    IN  sub_interpolation(r4)

\* a finished run whose result differs from the result of the permuted order
C7_Witness ==
    /\ run = 1 /\ rule = NumRules
    /\ input = dot_background \o Variant
    /\ content = dot_surface \o Variant
    /\ C7_Permuted(input) = dot_surface \o <<"C","o","n","t","a","i","n","e","r","H","i","g","h","e","s","t">>
    /\ C7_Permuted(input) # content

\* C8: global literal replacement - a literal rule applied to a text with n
\* non-overlapping occurrences of its matcher leaves zero occurrences of the
\* matcher and n more occurrences of the replacement.
C8_Matcher(k) ==
    CASE k = 1 -> surfaceVariant [] k = 3 -> dot_background [] k = 4 -> dot_onBackground

C8_Replacement(k) ==
    CASE k = 1 -> surfaceContainerHighest [] k = 3 -> dot_surface [] k = 4 -> dot_onSurface

C8_GlobalLiteral ==
    [][(rule' = rule + 1 /\ rule' \in {1, 3, 4}) =>
          /\ Count(content', C8_Matcher(rule')) = 0
          /\ Count(content', C8_Replacement(rule'))
                 = Count(content, C8_Replacement(rule')) + Count(content, C8_Matcher(rule'))]_vars

\* the surfaceVariant rule has just replaced three occurrences
C8_Witness ==
    /\ run = 1 /\ rule = 1
    /\ Count(input, surfaceVariant) = 3
    /\ Count(content, surfaceVariant) = 0
    /\ Count(content, surfaceContainerHighest) = 3

\* C9 as stated: every occurrence of '.withOpacity(X)' with a non-empty X
\* free of ')' is rewritten, so none is left once the rule has run.
C9_Occurrences(s) ==
    {i \in 1..Len(s) : withOpacity_match(Drop(s, i - 1)) > 0}

C9_Starts(s) ==
    {i \in 1..Len(s) :
        /\ i + Len(dot_withOpacity) <= Len(s)
        /\ SubSeq(s, i, i + Len(dot_withOpacity) - 1) = dot_withOpacity
        /\ s[i + Len(dot_withOpacity)] # ")"
        /\ \E j \in (i + Len(dot_withOpacity))..Len(s) : s[j] = ")"}

C9_Close(s, i) ==
    Min({j \in (i + Len(dot_withOpacity))..Len(s) : s[j] = ")"})

\* the occurrences that do not start inside an occurrence taken before them
C9_Taken(s) ==
    LET F[k \in 0..Len(s)] ==
            IF k = 0 THEN {}
            ELSE IF k \in C9_Starts(s) /\ \A i \in F[k - 1] : C9_Close(s, i) < k
                 THEN F[k - 1] \cup {k}
                 ELSE F[k - 1]
    IN  F[Len(s)]

\* t is s with every taken occurrence '.withOpacity(X)' turned into
\* '.withValues(alpha: X)' and every other character kept
C9_Rewritten(s, t) ==
    LET taken == C9_Taken(s)
        grow == Len(dot_withValues) - Len(dot_withOpacity)
        shift(k) == grow * Cardinality({i \in taken : i < k})
        inPrefix(k) == \E i \in taken : i <= k /\ k < i + Len(dot_withOpacity)
    IN  /\ Len(t) = Len(s) + grow * Cardinality(taken)
        /\ \A k \in 1..Len(s) : ~inPrefix(k) => t[k + shift(k)] = s[k]
        /\ \A i \in taken :
               SubSeq(t, i + shift(i), i + shift(i) + Len(dot_withValues) - 1) = dot_withValues

C9_Example == Colors_black \o dot_withOpacity \o <<"0",".","5",")">>

C9_ExampleResult == Colors_black \o dot_withValues \o <<"0",".","5",")">>

rules_of_run(s) ==
    IF script = "analysis" THEN fix_file_rules(s) ELSE fix_super_parameters_rules(s)

\* the per-file fixer was called on p and returned
Returned(p) == calls[p] > 0 /\ failed # p

\* C1: write-back gate - a file the fixer processed is opened for writing
\* and reported as fixed iff the text after all rules differs from the text
\* read; if equal the file on disk is untouched, if different the file holds
\* exactly the transformed text.
C1_WriteBackGate ==
    \A p \in Paths :
        Returned(p) =>
            LET original == read_text(disk0[p].data)
                new == rules_of_run(original)
            IN  /\ p \in opened_w <=> new # original
                /\ p \in fixedLog <=> new # original
                /\ new = original => fs[p] = disk0[p]
                /\ new # original => fs[p] = File(new)

\* one file was rewritten, and a file with CRLF line ends that no rule
\* matches was processed and left byte for byte as it was
C1_Witness ==
    \E p, q \in Paths :
        /\ Returned(p) /\ p \in opened_w /\ p \in fixedLog /\ fs[p] # disk0[p]
        /\ Returned(q) /\ q \notin opened_w /\ q \notin fixedLog
        /\ IndexOf(disk0[q].data, "\r", 1) > 0
        /\ fs[q] = disk0[q]

\* C3: continue-on-error - an I/O error on one file is caught and reported,
\* the file is skipped and the run goes on; it never aborts the run.
C3_ContinueOnError ==
    failed # NoPath => pc # "aborted"

\* p is a file the script may hand to its per-file fixer
C4_Candidate(p) ==
    /\ EndsWith(p.name, dot_dart)
    /\ script = "super" =>
          \/ InList(p, TARGETS)
          \/ Contains(p.name, kw_failure)
          \/ Contains(p.name, kw_exception)

\* C4: selective traversal - only files whose name ends in .dart (for
\* fix_super_parameters: target files and walked names with failure or
\* exception) reach the per-file fixer; every other file is never opened
\* and keeps its content.
C4_SelectiveTraversal ==
    \A p \in Paths :
        ~C4_Candidate(p) =>
            /\ calls[p] = 0
            /\ p \notin opened_r
            /\ p \notin opened_w
            /\ fs[p] = disk0[p]

\* a finished run that rewrote a file and left alone a file that is not a
\* candidate although a rule of the script matches its text
C4_Witness ==
    /\ pc = "done"
    /\ opened_w # {}
    /\ \E p \in Paths :
           /\ ~C4_Candidate(p)
           /\ fs[p].exists
           /\ rules_of_run(read_text(fs[p].data)) # read_text(fs[p].data)
           /\ fs[p] = disk0[p]

\* C5: skip-on-missing - every target path that does not exist gets a
\* 'File not found' line and is never opened, every existing target path
\* before the loop position has been handed to the fixer, a missing path
\* never aborts the run, and the run that ends prints the summary.
C5_SkipOnMissing ==
    script = "super" =>
        /\ pc \in {"loop", "done"} =>
               /\ SubSeq(target_files, 1, Len(TARGETS)) = TARGETS
               /\ idx \in 1..(Len(target_files) + 1)
        /\ \A j \in 1..Len(target_files) :
               j < idx =>
                   LET p == target_files[j]
                   IN  IF disk0[p].exists
                       THEN calls[p] = 1 /\ p \notin notFound
                       ELSE /\ p \in notFound
                            /\ calls[p] = 0
                            /\ p \notin opened_r
                            /\ p \notin opened_w
                            /\ failed # p
        /\ \A p \in notFound : ~disk0[p].exists
        /\ failed # NoPath => disk0[failed].exists
        /\ pc = "done" => idx = Len(target_files) + 1 /\ summary = fixed_count

\* a finished run that reported a missing target and fixed another target
C5_Witness ==
    /\ script = "super"
    /\ pc = "done"
    /\ \E p, q \in Paths :
           /\ InList(p, TARGETS) /\ p \in notFound /\ p \notin opened_r
           /\ InList(q, TARGETS) /\ q \in fixedLog
    /\ summary = 1

\* C6: missing root is fatal - when lib does not exist the walk fails and
\* the run aborts instead of completing with nothing to do.
C6_MissingRootFatal ==
    ~libExists => pc # "done"

\* C10: summary count - fixed_count is the number of distinct files
\* overwritten so far, no path is processed twice, and the summary line
\* prints the number of files changed.
C10_SummaryCount ==
    script = "super" =>
        /\ fixed_count = Cardinality(opened_w)
        /\ opened_w = {p \in Paths : fs[p] # disk0[p]}
        /\ fixedLog = opened_w
        /\ \A p \in Paths : calls[p] <= 1
        /\ pc = "done" => summary = Cardinality({p \in Paths : fs[p] # disk0[p]})

\* a finished run that fixed a target file the walk found too and a file
\* only the walk found, and printed 2
C10_Witness ==
    /\ script = "super"
    /\ pc = "done"
    /\ summary = 2
    /\ Len(target_files) = Len(TARGETS) + 1
    /\ \E p \in opened_w : InList(p, TARGETS) /\ InList(p, find_dart_files_with_super_parameter_issues)
    /\ \E p \in opened_w : ~InList(p, TARGETS)

====
